---- MODULE Spec2Model ----
(***************************************************************************)
(* The movie API of AwsMovieAppBackendStack: five AppSync resolvers        *)
(* (listMovies, getMovie, createMovie, updateMovie, deleteMovie) over one  *)
(* DynamoDB table.  Each resolver is a request mapping template, one       *)
(* DynamoDB operation, and a response mapping template.  The repository    *)
(* holds two revisions of the stack that differ in listMovies only.        *)
(***************************************************************************)
EXTENDS Integers, Sequences, FiniteSets, TLC

\* ------------------------------------------------------------------ bounds
MaxIds == 2      \* how many ids $util.autoId() hands out in a run
MaxLimit == 1    \* the largest explicit "limit" argument of listMovies
MaxInFlight == 2 \* how many mutations are under way at once

\* --------------------------------------------------------- nullable values
\* A VTL value that may be null: <<>> is null, <<v>> is the value v.
None == <<>>
Some(v) == <<v>>
IsNull(o) == Len(o) = 0
Val(o) == o[1]

\* ------------------------------------------------------------- identities
\* $ctx.identity of a Cognito user-pool caller: sub and the token's claims.
\* The "cognito:groups" claim is absent for a user who is in no group.
Claims(email, groups) ==
    IF IsNull(groups) THEN [email |-> email]
    ELSE [email |-> email, groups |-> Val(groups)]

Identities ==
    { [sub |-> "alice", claims |-> Claims("alice@example.com", None)],
      [sub |-> "bob",   claims |-> Claims("bob@example.com", Some(<<"Users">>))],
      [sub |-> "root",  claims |-> Claims("root@example.com", Some(<<"Users", "Admins">>))] }

Subjects == { i.sub : i \in Identities }

\* $ctx.identity.claims["cognito:groups"], null when the claim is absent
GroupsClaim(identity) ==
    IF "groups" \in DOMAIN identity.claims THEN Some(identity.claims.groups) ELSE None

\* ------------------------------------------------------------------- ids
Ids == 1 .. MaxIds
\* an id no record ever had (autoId never produces it)
MissingId == MaxIds + 1

\* ------------------------------------------------------------ arguments
\* createMovie(title: String!, publishingYear: Int!, poster: String)
CreateInputs ==
    { [title |-> Some("Inception"), publishingYear |-> Some(2010), poster |-> Some("inception.png")] }

\* updateMovie(id: ID!, title: String, publishingYear: Int, poster: String)
UpdateInputs ==
    { [title |-> Some("Inception"), publishingYear |-> Some(2010), poster |-> Some("inception.png")],
      [title |-> Some("Tenet"), publishingYear |-> None, poster |-> None] }

\* listMovies(limit: Int, nextToken: String)
Limits == { None } \cup { Some(n) : n \in 1 .. MaxLimit }

\* -------------------------------------------------------------- the state
VARIABLES
    stack,    \* which revision of the stack is deployed
    store,    \* the DynamoDB table: id -> item
    issued,   \* the ids $util.autoId() produced for the records made so far
    call,     \* the last completed resolver call: its context and its response
    inflight  \* mutations whose request is built and not yet run by the data source

vars == << stack, store, issued, call, inflight >>

\* the two revisions of the stack
Stacks == { "ScanFilter", "CreatedByIndex" }

\* an attribute of an item; a missing attribute reads as null
Attr(item, a) == IF a \in DOMAIN item THEN item[a] ELSE None

\* ids in ascending order: the order in which DynamoDB walks the keys
RECURSIVE SortedIds(_)
SortedIds(S) ==
    IF S = {} THEN << >>
    ELSE LET m == CHOOSE x \in S : \A y \in S : x <= y
         IN << m >> \o SortedIds(S \ { m })

Range(f) == { f[x] : x \in DOMAIN f }

\* ------------------------------------------------------ resolver results
Ok(data) == [ok |-> TRUE, type |-> "ok", data |-> data]
\* $util.error(message, type): evaluation of the template stops here
Error(message, type) == [ok |-> FALSE, type |-> type, data |-> message]

\* a DynamoDB fault that is not a failed condition
StoreFault == [type |-> "DynamoDB:AmazonDynamoDBException", message |-> "store unavailable"]
ConditionFailed == [type |-> "DynamoDB:ConditionalCheckFailedException",
                    message |-> "The conditional request failed"]

\* ------------------------------------------------------ DynamoDB data source
Min(a, b) == IF a <= b THEN a ELSE b

\* "operation": "GetItem": the item under the key, or null
GetItem(s, req) ==
    [store |-> s,
     result |-> IF req.key \in DOMAIN s THEN Some(s[req.key]) ELSE None,
     error |-> None]

\* "operation": "PutItem": writes key and attributeValues, returns the item
PutItem(s, req) ==
    LET item == [a \in { "id" } \cup DOMAIN req.attributeValues |->
                    IF a = "id" THEN req.key ELSE req.attributeValues[a]]
    IN [store |-> [k \in DOMAIN s \cup { req.key } |-> IF k = req.key THEN item ELSE s[k]],
        result |-> Some(item),
        error |-> None]

\* "operation": "UpdateItem": SET the listed attributes of the item under the
\* key (an item is made when there is none), unless the condition fails;
\* returns the item as updated
UpdateItem(s, req) ==
    IF ~IsNull(req.condition) /\ req.key \notin DOMAIN s
    THEN [store |-> s, result |-> None, error |-> Some(ConditionFailed)]
    ELSE LET old == IF req.key \in DOMAIN s THEN s[req.key] ELSE [id |-> req.key]
             item == [a \in DOMAIN old \cup DOMAIN req.update |->
                         IF a \in DOMAIN req.update THEN req.update[a] ELSE old[a]]
         IN [store |-> [k \in DOMAIN s \cup { req.key } |-> IF k = req.key THEN item ELSE s[k]],
             result |-> Some(item),
             error |-> None]

\* "operation": "DeleteItem": removes the item under the key and returns it
\* as it was, or null when there was none
DeleteItem(s, req) ==
    [store |-> [k \in DOMAIN s \ { req.key } |-> s[k]],
     result |-> IF req.key \in DOMAIN s THEN Some(s[req.key]) ELSE None,
     error |-> None]

\* One page of a walk over `keys` (in key order) that starts after the key in
\* nextToken and evaluates at most `limit` keys; of the evaluated keys those
\* in `visible` pass the filter.  The page carries a token (the last evaluated
\* key) when the walk stopped because the limit was reached.
Page(s, keys, limit, nextToken, visible) ==
    LET start == IF IsNull(nextToken) THEN 0 ELSE Val(nextToken)
        rest == SortedIds({ k \in keys : k > start })
        n == Min(limit, Len(rest))
        evaluated == { rest[i] : i \in 1 .. n }
        shown == SortedIds(evaluated \cap visible)
    IN [items |-> [i \in 1 .. Len(shown) |-> s[shown[i]]],
        nextToken |-> IF n = limit THEN Some(rest[n]) ELSE None]

\* "operation": "Scan": walks the whole table; "limit" bounds the items
\* evaluated, the filter is applied afterwards
Scan(s, req) ==
    LET visible == { k \in DOMAIN s :
                       IsNull(req.filter) \/ Attr(s[k], "createdBy") = req.filter }
    IN [store |-> s,
        result |-> Some(Page(s, DOMAIN s, req.limit, req.nextToken, visible)),
        error |-> None]

\* "operation": "Query" on CreatedByIndex: walks the items of one createdBy
\* partition; "limit" bounds the items of that partition
Query(s, req) ==
    LET partition == { k \in DOMAIN s : Attr(s[k], "createdBy") = req.query }
    IN [store |-> s,
        result |-> Some(Page(s, partition, req.limit, req.nextToken, partition)),
        error |-> None]

\* The data source runs the request against the table; `fault` is a DynamoDB
\* failure, which leaves the table as it was.
DynamoDB(s, req, fault) ==
    IF fault THEN [store |-> s, result |-> None, error |-> Some(StoreFault)]
    ELSE CASE req.operation = "GetItem" -> GetItem(s, req)
           [] req.operation = "PutItem" -> PutItem(s, req)
           [] req.operation = "UpdateItem" -> UpdateItem(s, req)
           [] req.operation = "DeleteItem" -> DeleteItem(s, req)
           [] req.operation = "Scan" -> Scan(s, req)
           [] req.operation = "Query" -> Query(s, req)

\* ----------------------------------------------------- permission checks
\* IsAdmin with a bug: only the first group of the claim is looked at
IsAdminFirstGroupOnly(identity) ==
    LET groups == GroupsClaim(identity)
    IN ~IsNull(groups) /\ Len(Val(groups)) > 0 /\ Val(groups)[1] = "Admins"

\* #foreach($group in claims["cognito:groups"]) #if($group == "Admins")
IsAdmin(identity) ==
    LET groups == GroupsClaim(identity)
    IN ~IsNull(groups) /\ \E i \in 1 .. Len(Val(groups)) : Val(groups)[i] = "Admins"

\* $ctx.result.createdBy == $ctx.identity.sub || $isAdmin
Permitted(ctx) ==
    Attr(Val(ctx.result), "createdBy") = Some(ctx.identity.sub) \/ IsAdmin(ctx.identity)

\* #if($ctx.error) $util.error($ctx.error.message, $ctx.error.type) #end
Rethrow(ctx) == Error(Val(ctx.error).message, Val(ctx.error).type)

\* ------------------------------------------------------------- listMovies
\* $util.defaultIfNull($ctx.args.limit, 11) / (..., 10)
DefaultLimitScanFilter == 11
DefaultLimitCreatedByIndex == 10

DefaultLimit(st) ==
    IF st = "ScanFilter" THEN DefaultLimitScanFilter ELSE DefaultLimitCreatedByIndex

\* claims["cognito:groups"] && claims["cognito:groups"].contains("Admins")
ListScopeAll(identity) ==
    LET groups == GroupsClaim(identity)
    IN ~IsNull(groups) /\ "Admins" \in Range(Val(groups))

\* OwnedScanRequest with a bug: the filter is left out
OwnedScanRequestNoFilter(ctx, limit) ==
    [operation |-> "Scan", limit |-> limit, filter |-> None,
     nextToken |-> ctx.args.nextToken]

\* the owner-scoped request of the revision that scans with a filter
OwnedScanRequest(ctx, limit) ==
    [operation |-> "Scan", limit |-> limit, filter |-> Some(ctx.identity.sub),
     nextToken |-> ctx.args.nextToken]

\* the owner-scoped request of the revision that queries CreatedByIndex
OwnedQueryRequest(ctx, limit) ==
    [operation |-> "Query", index |-> "CreatedByIndex", query |-> Some(ctx.identity.sub),
     limit |-> limit, nextToken |-> ctx.args.nextToken]

ListMoviesRequest(st, ctx) ==
    LET limit == IF IsNull(ctx.args.limit) THEN DefaultLimit(st) ELSE Val(ctx.args.limit)
    IN IF ListScopeAll(ctx.identity)
       THEN [operation |-> "Scan", limit |-> limit, filter |-> None,
             nextToken |-> ctx.args.nextToken]
       ELSE IF st = "ScanFilter" THEN OwnedScanRequest(ctx, limit)
            ELSE OwnedQueryRequest(ctx, limit)

\* ListResponseScanFilter with a bug: the empty page keeps the store's token
ListResponseScanFilterKeepToken(ctx) ==
    IF ~IsNull(ctx.error) THEN Rethrow(ctx)
    ELSE IF IsNull(ctx.result) THEN Ok([items |-> << >>, nextToken |-> None])
         ELSE Ok([items |-> Val(ctx.result).items, nextToken |-> Val(ctx.result).nextToken])

\* response template of the ScanFilter revision: an empty page is answered
\* with items [] and nextToken null
ListResponseScanFilter(ctx) ==
    IF ~IsNull(ctx.error) THEN Rethrow(ctx)
    ELSE IF IsNull(ctx.result) \/ Len(Val(ctx.result).items) = 0
         THEN Ok([items |-> << >>, nextToken |-> None])
         ELSE Ok([items |-> Val(ctx.result).items, nextToken |-> Val(ctx.result).nextToken])

\* response template of the CreatedByIndex revision
ListResponseCreatedByIndex(ctx) ==
    IF ~IsNull(ctx.error) THEN Rethrow(ctx)
    ELSE Ok([items |-> Val(ctx.result).items, nextToken |-> Val(ctx.result).nextToken])

ListMoviesResponse(st, ctx) ==
    IF st = "ScanFilter" THEN ListResponseScanFilter(ctx) ELSE ListResponseCreatedByIndex(ctx)

\* --------------------------------------------------------------- getMovie
GetMovieRequest(ctx) == [operation |-> "GetItem", key |-> ctx.args.id]

GetMovieResponse(ctx) ==
    IF ~IsNull(ctx.error) THEN Rethrow(ctx)
    ELSE IF IsNull(ctx.result) THEN Error("Movie not found", "NotFound")
    ELSE IF Permitted(ctx) THEN Ok(Val(ctx.result))
    ELSE Error("Unauthorized to view this movie", "Unauthorized")

\* ------------------------------------------------------------ createMovie
\* CreateMovieRequest with a bug: createdByEmail is filled with the subject
CreateMovieRequestEmailFromSub(ctx, autoId) ==
    [operation |-> "PutItem", key |-> autoId,
     attributeValues |->
        [title |-> ctx.args.title,
         publishingYear |-> ctx.args.publishingYear,
         poster |-> ctx.args.poster,
         createdBy |-> Some(ctx.identity.sub),
         createdByEmail |-> Some(ctx.identity.sub)]]

CreateMovieRequest(ctx, autoId) ==
    [operation |-> "PutItem", key |-> autoId,
     attributeValues |->
        [title |-> ctx.args.title,
         publishingYear |-> ctx.args.publishingYear,
         poster |-> ctx.args.poster,
         createdBy |-> Some(ctx.identity.sub),
         createdByEmail |-> Some(ctx.identity.claims.email)]]

CreateMovieResponse(ctx) ==
    IF ~IsNull(ctx.error) THEN Rethrow(ctx) ELSE Ok(Val(ctx.result))

\* ------------------------------------------------------------ updateMovie
\* UpdateMovieRequest with a bug: no condition, so that UpdateItem makes an
\* item when there is none
UpdateMovieRequestUnconditional(ctx) ==
    [operation |-> "UpdateItem", key |-> ctx.args.id,
     update |-> [title |-> ctx.args.title,
                 publishingYear |-> ctx.args.publishingYear,
                 poster |-> ctx.args.poster],
     condition |-> None]

\* UpdateMovieRequest with a bug: the update also sets createdBy to the caller
UpdateMovieRequestRestamp(ctx) ==
    [operation |-> "UpdateItem", key |-> ctx.args.id,
     update |-> [title |-> ctx.args.title,
                 publishingYear |-> ctx.args.publishingYear,
                 poster |-> ctx.args.poster,
                 createdBy |-> Some(ctx.identity.sub)],
     condition |-> Some("attribute_exists(id)")]

UpdateMovieRequest(ctx) ==
    [operation |-> "UpdateItem", key |-> ctx.args.id,
     update |-> [title |-> ctx.args.title,
                 publishingYear |-> ctx.args.publishingYear,
                 poster |-> ctx.args.poster],
     condition |-> Some("attribute_exists(id)")]

\* UpdateMovieResponse with a bug: the failed condition is passed on as it is
UpdateMovieResponseRethrowAll(ctx) ==
    IF ~IsNull(ctx.error) THEN Rethrow(ctx)
    ELSE IF Permitted(ctx) THEN Ok(Val(ctx.result))
    ELSE Error("Unauthorized to update this movie", "Unauthorized")

UpdateMovieResponse(ctx) ==
    IF ~IsNull(ctx.error)
    THEN IF Val(ctx.error).type = ConditionFailed.type
         THEN Error("Movie not found", "NotFound")
         ELSE Rethrow(ctx)
    ELSE IF Permitted(ctx) THEN Ok(Val(ctx.result))
    ELSE Error("Unauthorized to update this movie", "Unauthorized")

\* ------------------------------------------------------------ deleteMovie
DeleteMovieRequest(ctx) == [operation |-> "DeleteItem", key |-> ctx.args.id]

DeleteMovieResponse(ctx) ==
    IF ~IsNull(ctx.error) THEN Rethrow(ctx)
    ELSE IF IsNull(ctx.result) THEN Error("Movie not found", "NotFound")
    ELSE IF Permitted(ctx) THEN Ok(Val(ctx.result))
    ELSE Error("Unauthorized to delete this movie", "Unauthorized")

\* ------------------------------------------------- one call, end to end
\* The resolver's request template, the data source, and the response
\* template, for a caller `identity` with arguments `args`.
Ctx(identity, args) == [identity |-> identity, args |-> args]

\* $ctx of the response template: the data source's result and error added
ResponseCtx(identity, args, out) ==
    [identity |-> identity, args |-> args, result |-> out.result, error |-> out.error]

\* the table after the call, and the call as completed
Resolved(op, ctx, out, response) ==
    [store |-> out.store,
     call |-> [op |-> op, identity |-> ctx.identity, args |-> ctx.args,
               result |-> ctx.result, error |-> ctx.error, response |-> response]]

ListMovies(st, s, identity, args, fault) ==
    LET out == DynamoDB(s, ListMoviesRequest(st, Ctx(identity, args)), fault)
        ctx == ResponseCtx(identity, args, out)
    IN Resolved("listMovies", ctx, out, ListMoviesResponse(st, ctx))

GetMovie(s, identity, args, fault) ==
    LET out == DynamoDB(s, GetMovieRequest(Ctx(identity, args)), fault)
        ctx == ResponseCtx(identity, args, out)
    IN Resolved("getMovie", ctx, out, GetMovieResponse(ctx))

CreateMovie(s, identity, args, autoId, fault) ==
    LET out == DynamoDB(s, CreateMovieRequest(Ctx(identity, args), autoId), fault)
        ctx == ResponseCtx(identity, args, out)
    IN Resolved("createMovie", ctx, out, CreateMovieResponse(ctx))

UpdateMovie(s, identity, args, fault) ==
    LET out == DynamoDB(s, UpdateMovieRequest(Ctx(identity, args)), fault)
        ctx == ResponseCtx(identity, args, out)
    IN Resolved("updateMovie", ctx, out, UpdateMovieResponse(ctx))

DeleteMovie(s, identity, args, fault) ==
    LET out == DynamoDB(s, DeleteMovieRequest(Ctx(identity, args)), fault)
        ctx == ResponseCtx(identity, args, out)
    IN Resolved("deleteMovie", ctx, out, DeleteMovieResponse(ctx))

\* ---------------------------------------------------------------- actions
\* $util.autoId(): an id that no record ever had (the bound's ids are handed
\* out in order)
AutoId == { id \in Ids \ issued : \A other \in Ids \ issued : id <= other }

\* Inputs of a call.  A call the store fails answers with the store's error
\* whatever its arguments are, so one argument value stands for all of them.
\* ids a caller can name: those of records that were made, and a bogus one
KnownIds(fault) == IF fault THEN { MissingId } ELSE issued \cup { MissingId }
\* tokens a caller can hold
KnownTokens(fault) == IF fault THEN { None } ELSE { None } \cup { Some(k) : k \in issued }
LimitInputs(fault) == IF fault THEN { None } ELSE Limits
MovieInputs(fault, inputs) ==
    IF fault THEN { CHOOSE i \in inputs : \A j \in inputs : IsNull(i.poster) => IsNull(j.poster) }
    ELSE inputs

\* the arguments of updateMovie
UpdateArgs(id, input) ==
    [id |-> id, title |-> input.title, publishingYear |-> input.publishingYear,
     poster |-> input.poster]

Init ==
    /\ stack \in Stacks
    /\ store = << >>
    /\ issued = {}
    /\ call = [op |-> "none"]
    /\ inflight = {}

ListMoviesResolver ==
    \E fault \in BOOLEAN, identity \in Identities :
    \E limit \in LimitInputs(fault), nextToken \in KnownTokens(fault) :
        \E r \in { ListMovies(stack, store, identity,
                                [limit |-> limit, nextToken |-> nextToken], fault) } :
           /\ store' = r.store
           /\ call' = r.call
           /\ UNCHANGED << stack, issued, inflight >>

GetMovieResolver ==
    \E fault \in BOOLEAN, identity \in Identities :
    \E id \in KnownIds(fault) :
        \E r \in { GetMovie(store, identity, [id |-> id], fault) } :
           /\ store' = r.store
           /\ call' = r.call
           /\ UNCHANGED << stack, issued, inflight >>

CreateMovieResolver ==
    \E fault \in BOOLEAN, identity \in Identities :
    \E input \in MovieInputs(fault, CreateInputs), autoId \in AutoId :
        \E r \in { CreateMovie(store, identity, input, autoId, fault) } :
           /\ store' = r.store
           /\ call' = r.call
           /\ issued' = IF fault THEN issued ELSE issued \cup { autoId }
           /\ UNCHANGED << stack, inflight >>

UpdateMovieResolver ==
    \E fault \in BOOLEAN, identity \in Identities :
    \E id \in KnownIds(fault), input \in MovieInputs(fault, UpdateInputs) :
        \E r \in { UpdateMovie(store, identity, UpdateArgs(id, input), fault) } :
           /\ store' = r.store
           /\ call' = r.call
           /\ UNCHANGED << stack, issued, inflight >>

DeleteMovieResolver ==
    \E fault \in BOOLEAN, identity \in Identities :
    \E id \in KnownIds(fault) :
        \E r \in { DeleteMovie(store, identity, [id |-> id], fault) } :
           /\ store' = r.store
           /\ call' = r.call
           /\ UNCHANGED << stack, issued, inflight >>

Next ==
    \/ ListMoviesResolver
    \/ GetMovieResolver
    \/ CreateMovieResolver
    \/ UpdateMovieResolver
    \/ DeleteMovieResolver

Spec == Init /\ [][Next]_vars

\* ------------------------------------------------- calls under way at once
\* AppSync serves calls concurrently.  A mutation's request template is
\* evaluated first; the data source then runs the request against the table,
\* one request at a time per item, and the response template is evaluated on
\* what it returns.  Requests under way are run in any order.

\* a mutation under way: the caller, the arguments and the request as built
Sent(op, identity, args, req) ==
    [op |-> op, identity |-> identity, args |-> args, req |-> req]

\* ids already taken by createMovie requests under way
ReservedIds == { m.req.key : m \in { n \in inflight : n.op = "createMovie" } }

\* $util.autoId() among calls under way: an id no record and no request has
FreshId ==
    { id \in Ids \ (issued \cup ReservedIds) :
        \A other \in Ids \ (issued \cup ReservedIds) : id <= other }

\* the response template of a mutation
MutationResponse(op, ctx) ==
    CASE op = "createMovie" -> CreateMovieResponse(ctx)
      [] op = "updateMovie" -> UpdateMovieResponse(ctx)
      [] op = "deleteMovie" -> DeleteMovieResponse(ctx)

\* the data source runs the request of a mutation under way
Complete(s, m, fault) ==
    LET out == DynamoDB(s, m.req, fault)
        ctx == ResponseCtx(m.identity, m.args, out)
    IN Resolved(m.op, ctx, out, MutationResponse(m.op, ctx))

\* the callers and arguments of the mutations under way: a caller without
\* groups and an admin; an update that changes every field of a new record
RaceCallers == { i \in Identities : i.sub \in { "alice", "root" } }
RaceUpdates == UpdateInputs \ CreateInputs

CreateMovieSent ==
    /\ Cardinality(inflight) < MaxInFlight
    /\ \E identity \in RaceCallers, input \in CreateInputs, autoId \in FreshId :
         inflight' = inflight \cup
            { Sent("createMovie", identity, input,
                   CreateMovieRequest(Ctx(identity, input), autoId)) }
    /\ UNCHANGED << stack, store, issued, call >>

UpdateMovieSent ==
    /\ Cardinality(inflight) < MaxInFlight
    /\ \E identity \in RaceCallers, id \in issued, input \in RaceUpdates :
         inflight' = inflight \cup
            { Sent("updateMovie", identity, UpdateArgs(id, input),
                   UpdateMovieRequest(Ctx(identity, UpdateArgs(id, input)))) }
    /\ UNCHANGED << stack, store, issued, call >>

DeleteMovieSent ==
    /\ Cardinality(inflight) < MaxInFlight
    /\ \E identity \in RaceCallers, id \in issued :
         inflight' = inflight \cup
            { Sent("deleteMovie", identity, [id |-> id],
                   DeleteMovieRequest(Ctx(identity, [id |-> id]))) }
    /\ UNCHANGED << stack, store, issued, call >>

MutationCompleted ==
    \E m \in inflight, fault \in BOOLEAN :
        \E r \in { Complete(store, m, fault) } :
           /\ store' = r.store
           /\ call' = r.call
           /\ inflight' = inflight \ { m }
           /\ issued' = IF m.op = "createMovie" /\ ~fault
                        THEN issued \cup { m.req.key } ELSE issued
           /\ UNCHANGED stack

NextRace ==
    \/ CreateMovieSent
    \/ UpdateMovieSent
    \/ DeleteMovieSent
    \/ MutationCompleted

\* the mutations are the same in both revisions of the stack
InitRace == Init /\ stack = "CreatedByIndex"

SpecRace == InitRace /\ [][NextRace]_vars

\* ------------------------------------------------------- vocabulary of the claims
\* the caller's groups; no group claim is the empty set
GroupSet(identity) ==
    IF "groups" \in DOMAIN identity.claims THEN Range(identity.claims.groups) ELSE {}

Administrator(identity) == "Admins" \in GroupSet(identity)

Owns(identity, item) == Attr(item, "createdBy") = Some(identity.sub)

\* the store failed the call (a failed condition is an answer, not a fault)
Faulted(c) == ~IsNull(c.error) /\ Val(c.error).type # ConditionFailed.type

\* the last call was `op` and the store answered it
Answered(op) == call.op = op /\ ~Faulted(call)

Failed(response, kind) == ~response.ok /\ response.type = kind

Returned(response, item) == response.ok /\ response.data = item

\* ----------------------------------------------------------------------- C1
\* C1: when a non-admin caller who is not the owner calls deleteMovie on an
\* existing record, the call fails Unauthorized and the record is still in the
\* store, so that its owner's getMovie returns it.
C1_DeniedDeleteLeavesRecord ==
    ( /\ Answered("deleteMovie")
      /\ ~IsNull(call.result)
      /\ ~Administrator(call.identity)
      /\ ~Owns(call.identity, Val(call.result)) )
    => /\ Failed(call.response, "Unauthorized")
       /\ call.args.id \in DOMAIN store
       /\ \A a \in Identities :
            Owns(a, Val(call.result)) =>
                Returned(GetMovie(store, a, [id |-> call.args.id], FALSE).call.response,
                         Val(call.result))

\* ----------------------------------------------------------------------- C2
\* C2: getMovie on an existing record returns the record if and only if the
\* caller is in "Admins" or is the record's createdBy, and fails Unauthorized
\* otherwise; a caller without a group claim is a non-admin.
GetExpected(identity, item, response) ==
    IF Administrator(identity) \/ Owns(identity, item)
    THEN Returned(response, item)
    ELSE Failed(response, "Unauthorized")

C2_GetIffAdminOrOwner ==
    /\ \A id \in DOMAIN store, i \in Identities :
         GetExpected(i, store[id], GetMovie(store, i, [id |-> id], FALSE).call.response)
    /\ (Answered("getMovie") /\ call.args.id \in DOMAIN store)
         => GetExpected(call.identity, store[call.args.id], call.response)

C2_Witness ==
    /\ Answered("getMovie")
    /\ call.args.id \in DOMAIN store
    /\ "groups" \notin DOMAIN call.identity.claims
    /\ Failed(call.response, "Unauthorized")

\* ----------------------------------------------------------------------- C3
\* C3: an updateMovie call by a non-admin caller who is not the record's
\* createdBy leaves the stored record exactly as it was.
C3_DeniedUpdateLeavesFields ==
    [][ ( /\ call'.op = "updateMovie"
          /\ ~Faulted(call')
          /\ call'.args.id \in DOMAIN store
          /\ ~Administrator(call'.identity)
          /\ ~Owns(call'.identity, store[call'.args.id]) )
        => /\ call'.args.id \in DOMAIN store'
           /\ store'[call'.args.id] = store[call'.args.id] ]_vars

\* ----------------------------------------------------------------------- C4
\* every page of a listing that starts at `token` and follows the returned
\* tokens until one is null, concatenated
RECURSIVE FollowPages(_, _, _, _, _)
FollowPages(st, s, identity, limit, token) ==
    LET page == ListMovies(st, s, identity, [limit |-> limit, nextToken |-> token],
                           FALSE).call.response.data
    IN IF IsNull(page.nextToken) THEN page.items
       ELSE page.items \o FollowPages(st, s, identity, limit, page.nextToken)

OnePage(st, s, identity, limit, token) ==
    ListMovies(st, s, identity, [limit |-> limit, nextToken |-> token], FALSE).call.response

\* C4: listMovies by an admin returns every record of the store, whoever owns
\* it, on some page; listMovies by a non-admin returns on every page only
\* records whose createdBy is the caller's subject.
C4_ListScope ==
    /\ \A i \in Identities, limit \in Limits :
         Administrator(i) => Range(FollowPages(stack, store, i, limit, None)) = Range(store)
    /\ \A i \in Identities, limit \in Limits, token \in KnownTokens(FALSE) :
         LET r == OnePage(stack, store, i, limit, token)
         IN /\ r.ok
            /\ ~Administrator(i) => \A item \in Range(r.data.items) :
                                        Owns(i, item) /\ item \in Range(store)
    /\ (Answered("listMovies") /\ ~Administrator(call.identity))
         => \A item \in Range(call.response.data.items) : Owns(call.identity, item)

C4_Witness ==
    /\ Answered("listMovies")
    /\ ~Administrator(call.identity)
    /\ Len(call.response.data.items) > 0
    /\ \E k \in DOMAIN store : ~Owns(call.identity, store[k])

\* ----------------------------------------------------------------------- C5
\* arguments a caller may try, among them the names of other callers
CreateProbes ==
    [title : { Some("Inception"), Some("root"), Some("bob") },
     publishingYear : { Some(2010) },
     poster : { None, Some("root@example.com") }]

CreateExpected(s, identity, args, out) ==
    /\ out.call.response.ok
    /\ LET item == out.call.response.data
       IN /\ item.createdBy = Some(identity.sub)
          /\ item.createdByEmail = Some(identity.claims.email)
          /\ item.id \notin DOMAIN s
          /\ item.title = args.title
          /\ item.publishingYear = args.publishingYear
          /\ item.poster = args.poster
          /\ item.id \in DOMAIN out.store
          /\ out.store[item.id] = item

\* C5: createMovie succeeds for every caller, and the record it stores and
\* returns carries the caller's subject as createdBy and the caller's email
\* claim as createdByEmail, whatever the arguments are; its id is a new one.
C5_CreateStampsCaller ==
    /\ \A i \in Identities, args \in CreateProbes, autoId \in AutoId :
         CreateExpected(store, i, args, CreateMovie(store, i, args, autoId, FALSE))
    /\ Answered("createMovie")
         => /\ call.response.ok
            /\ call.response.data.createdBy = Some(call.identity.sub)
            /\ call.response.data.createdByEmail = Some(call.identity.claims.email)
            /\ call.response.data.id \in DOMAIN store
            /\ store[call.response.data.id] = call.response.data

C5_Witness ==
    /\ Answered("createMovie")
    /\ call.response.ok
    /\ \E k \in DOMAIN store : ~Owns(call.identity, store[k])

\* ----------------------------------------------------------------------- C6
NotFoundForAll(s, id) ==
    \A i \in Identities :
        Failed(GetMovie(s, i, [id |-> id], FALSE).call.response, "NotFound")

\* C6: after a deleteMovie call that reached the store the id has no record,
\* and an id whose record is gone never has a record again: getMovie on it
\* fails NotFound for every caller after every later call.
C6_DeletedStaysGone ==
    /\ [](Answered("deleteMovie") => call.args.id \notin DOMAIN store)
    /\ [](\A id \in (issued \cup { MissingId }) \ DOMAIN store : NotFoundForAll(store, id))
    /\ [][ \A id \in issued \cup { MissingId } :
             id \notin DOMAIN store => id \notin DOMAIN store' ]_vars

\* an update was tried on the id of a deleted record
C6_Witness ==
    /\ Answered("updateMovie")
    /\ call.args.id \in issued
    /\ call.args.id \notin DOMAIN store
    /\ Cardinality(issued) = MaxIds

\* ----------------------------------------------------------------------- C7
\* C7: updateMovie changes no record's id, createdBy or createdByEmail and no
\* record other than the one named; every stored record carries the subject and
\* email of one caller; and repeating an update call changes nothing more.
C7_UpdateKeepsOwner ==
    /\ [](\A k \in DOMAIN store :
            /\ store[k].id = k
            /\ \E i \in Identities : /\ Attr(store[k], "createdBy") = Some(i.sub)
                                     /\ Attr(store[k], "createdByEmail") = Some(i.claims.email))
    /\ [](Answered("updateMovie")
            => UpdateMovie(store, call.identity, call.args, FALSE).store = store)
    /\ [][ call'.op = "updateMovie"
             => /\ DOMAIN store' = DOMAIN store
                /\ \A k \in DOMAIN store :
                     /\ Attr(store'[k], "id") = Attr(store[k], "id")
                     /\ Attr(store'[k], "createdBy") = Attr(store[k], "createdBy")
                     /\ Attr(store'[k], "createdByEmail") = Attr(store[k], "createdByEmail")
                     /\ k # call'.args.id => store'[k] = store[k] ]_vars

\* a caller other than the owner has updated a record
C7_Witness ==
    /\ Answered("updateMovie")
    /\ call.args.id \in DOMAIN store
    /\ ~Owns(call.identity, store[call.args.id])
    /\ store[call.args.id].title = call.args.title

\* ----------------------------------------------------------------------- C8
MissingAnswer(s, out) ==
    Failed(out.call.response, "NotFound") /\ out.store = s

\* C8: on an id that has no record, getMovie, updateMovie and deleteMovie fail
\* NotFound for every caller and leave the store as it was.
C8_MissingIdNotFound ==
    /\ \A id \in (issued \cup { MissingId }) \ DOMAIN store, i \in Identities :
         /\ MissingAnswer(store, GetMovie(store, i, [id |-> id], FALSE))
         /\ MissingAnswer(store, DeleteMovie(store, i, [id |-> id], FALSE))
         /\ \A input \in UpdateInputs :
              MissingAnswer(store, UpdateMovie(store, i, UpdateArgs(id, input), FALSE))
    /\ ( /\ call.op \in { "getMovie", "updateMovie", "deleteMovie" }
         /\ ~Faulted(call)
         /\ IsNull(call.result) )
         => Failed(call.response, "NotFound") /\ call.args.id \notin DOMAIN store

C8_Witness ==
    /\ Answered("updateMovie")
    /\ call.args.id \notin DOMAIN store
    /\ Administrator(call.identity)
    /\ Failed(call.response, "NotFound")
    /\ DOMAIN store # {}

\* ----------------------------------------------------------------------- C9
\* the records a listing by `identity` is about
InScope(s, identity) ==
    { k \in DOMAIN s : Administrator(identity) \/ Owns(identity, s[k]) }

EmptyPage(response) ==
    /\ response.ok
    /\ response.data.items = << >>
    /\ IsNull(response.data.nextToken)

\* C9: a listMovies call for which the store yields no items (the store is
\* empty, the caller owns nothing, or the page holds nothing of the caller's)
\* returns an empty item sequence and a null token, and does not fail.
C9_EmptyListing ==
    /\ \A i \in Identities, limit \in Limits, token \in KnownTokens(FALSE) :
         LET out == ListMovies(stack, store, i, [limit |-> limit, nextToken |-> token], FALSE)
         IN (InScope(store, i) = {} \/ Len(Val(out.call.result).items) = 0)
               => EmptyPage(out.call.response)
    /\ (Answered("listMovies") /\ Len(Val(call.result).items) = 0)
         => EmptyPage(call.response)

\* the store walked records of other owners only and stopped at the limit
C9_Witness ==
    /\ Answered("listMovies")
    /\ Len(Val(call.result).items) = 0
    /\ ~IsNull(Val(call.result).nextToken)
    /\ EmptyPage(call.response)

\* ---------------------------------------------------------------------- C10
LimitOf(st, limit) == IF IsNull(limit) THEN DefaultLimit(st) ELSE Val(limit)

\* C10: the nextToken a listMovies call returns is the token the store
\* returned for that page, also for a page without visible items; a caller
\* who follows the tokens until null receives every record in its scope; and
\* no page holds more than `limit` items.
C10_TokenVerbatim ==
    /\ Answered("listMovies")
         => /\ call.response.data.nextToken = Val(call.result).nextToken
            /\ Len(call.response.data.items) <= LimitOf(stack, call.args.limit)
    /\ \A i \in Identities, limit \in Limits :
         { item.id : item \in Range(FollowPages(stack, store, i, limit, None)) }
            = InScope(store, i)


\* ---------------------------------------------------------------------- C11
ItemAttributes == { "id", "title", "publishingYear", "poster", "createdBy", "createdByEmail" }

\* the item carries the subject and the email of one caller
Stamped(item) ==
    /\ DOMAIN item = ItemAttributes
    /\ \E i \in Identities : /\ item.createdBy = Some(i.sub)
                             /\ item.createdByEmail = Some(i.claims.email)

\* the update applied all three fields to the item that was there, and nothing else
AppliedWhole(s, args, after) ==
    /\ DOMAIN after = DOMAIN s
    /\ \A k \in DOMAIN s \ { args.id } : after[k] = s[k]
    /\ after[args.id] = [s[args.id] EXCEPT !.title = args.title,
                                           !.publishingYear = args.publishingYear,
                                           !.poster = args.poster]

\* C11: with createMovie, updateMovie and deleteMovie calls under way at once
\* and run in any order, every record in the store carries the createdBy and
\* createdByEmail of the call that created it; an updateMovie whose record a
\* deleteMovie may have removed meanwhile either applies its three fields to
\* the record that is still there or fails NotFound and leaves the store as it
\* is, and never leaves a record without an owner.
C11_NoOwnerlessRecord ==
    /\ \A k \in DOMAIN store : store[k].id = k /\ Stamped(store[k])
    /\ \A m \in inflight :
         m.op = "updateMovie" =>
            LET r == Complete(store, m, FALSE)
            IN IF m.args.id \in DOMAIN store
               THEN AppliedWhole(store, m.args, r.store) /\ Stamped(r.store[m.args.id])
               ELSE Failed(r.call.response, "NotFound") /\ r.store = store
    /\ Answered("updateMovie") =>
         IF IsNull(call.result)
         THEN Failed(call.response, "NotFound") /\ call.args.id \notin DOMAIN store
         ELSE /\ call.args.id \in DOMAIN store
              /\ store[call.args.id] = Val(call.result)
              /\ Val(call.result).title = call.args.title
              /\ Val(call.result).publishingYear = call.args.publishingYear
              /\ Val(call.result).poster = call.args.poster

\* a deleteMovie removed the record while an updateMovie of it was under way
C11_Witness ==
    /\ Answered("deleteMovie")
    /\ ~IsNull(call.result)
    /\ \E m \in inflight : m.op = "updateMovie" /\ m.args.id = call.args.id
    /\ DOMAIN store # {}

====
